---- MODULE Spec2Model ----
(***************************************************************************)
(* dazzlesum: the loop-safe FIFO directory walker, the tree-wide           *)
(* (monolithic) digest writer with its resume protocol, per-directory      *)
(* digest files, the shadow path resolver and the verification engine.     *)
(***************************************************************************)
EXTENDS Integers, Sequences, FiniteSets, TLC

(***************************************************************************)
(* Bounds                                                                  *)
(***************************************************************************)
\* number of directory entries below the root in the walked tree
NumEntries == 3
\* number of directories below the root in a tree that is generated over
NumGenDirs == 2
\* number of generation runs in one behaviour
MaxRuns == 2
\* number of faults (kills, write errors) injected in one behaviour
MaxFaults == 1
\* number of files changed, removed or added between generation and verify
MaxEdits == 1
\* number of lines of the short files is_monolithic_file is asked about
MaxLines == 3
\* number of directories one verify run walks
MaxWalk == 2
\* the number of verified files in a large directory
ManyFiles == 199

(***************************************************************************)
(* The directory tree seen by the walker.  Entry 0 is the root passed to   *)
(* walk_and_process, entries 1..NumEntries live below it.  An entry is a   *)
(* real directory (target = NoLink) or a symlink to a directory.  Above is *)
(* the parent directory of the root (outside the walked tree).             *)
(***************************************************************************)
\* no path in the queue is longer than the tree is deep (see PathsBounded)
MaxPathLen == NumEntries + 2

Root == 0
Above == -1
NoLink == -2

Entries == 1..NumEntries
EntriesOf(t) == DOMAIN t.parent

VARIABLES
  tree,              \* [parent, target]: the directory tree on disk
  follow_symlinks,   \* FIFODirectoryWalker.follow_symlinks
  processing_queue,  \* FIFODirectoryWalker.processing_queue (sequence of paths)
  visited_paths,     \* SymlinkHandler.visited_paths (resolved paths)
  visited_inodes,    \* SymlinkHandler.visited_inodes
  processed_count,   \* FIFODirectoryWalker.processed_count
  calls,             \* paths handed to processor_func, in order
  raised,            \* paths on which processor_func raised
  enqueued,          \* every path ever appended to the queue, in order
  wpc                \* position in walk_and_process: "idle", "loop", "done"

wvars == <<tree, follow_symlinks, processing_queue, visited_paths,
           visited_inodes, processed_count, calls, raised, enqueued, wpc>>

VARIABLES
  cfg,               \* ChecksumGenerator options and platform of the run
  files,             \* user files on disk: directory -> [name -> content]
  shasum_src,        \* .shasum files inside the source tree, per directory
  shasum_shadow,     \* .shasum files under the shadow root, per directory
  mono_target,       \* MonolithicWriter.output_path on disk
  mono_temp,         \* MonolithicWriter.temp_path on disk
  mono_bak,          \* the .bak file of _atomic_replace on disk
  resume_mode,       \* ChecksumGenerator.resume_mode of the current run
  processed_directories,        \* ChecksumGenerator.processed_directories
  existing_monolithic_entries,  \* ChecksumGenerator.existing_monolithic_entries
  is_open,           \* MonolithicWriter._is_open
  entries_written,   \* MonolithicWriter.entries_written
  gpc,               \* position in process_directory_tree
  clock,             \* wall-clock time, advanced once per run
  pre,               \* the digest files as they were when the run started
  generated,         \* directories hashed by the current run
  appended,          \* relative paths appended by the current run
  append_failed,     \* append_directory_checksums raised in this run
  runs,              \* the finished runs: how each started and ended
  faults,            \* faults injected so far
  vresult            \* results of verify_checksums_in_directory, per directory

gvars == <<cfg, files, shasum_src, shasum_shadow, mono_target, mono_temp,
           mono_bak, resume_mode, processed_directories,
           existing_monolithic_entries, is_open, entries_written, gpc, clock,
           pre, generated, appended, append_failed, runs, faults,
           vresult>>

VARIABLES
  origin,            \* the files of the tree at the path a digest file records
  mresult,           \* results of verify_monolithic_file, per recorded root
  checksum_file,     \* the file is_monolithic_file is asked about
  detected,          \* what is_monolithic_file returned for it, as text
  args,              \* the parsed command line of a verify run
  verbosity_config,  \* VerbosityConfig.level
  squelch_settings,  \* the squelch categories in force
  grand_totals,      \* GrandTotals counters, or NoTotals
  verification_exit_code,  \* the global the verify exit code is taken from
  dir_results,       \* what verification returns for the directories walked
  pending,           \* verification results not yet reported
  printed,           \* what has been written to the terminal
  cpc                \* position in main()

cvars == <<origin, mresult, checksum_file, detected, args, verbosity_config,
           squelch_settings, grand_totals, verification_exit_code,
           dir_results, pending, printed, cpc>>

vars == <<wvars, gvars, cvars>>

IsReal(t, e) == e \in {Root, Above} \/ t.target[e] = NoLink

\* the trees the walker is run on: parents are real directories, links point
\* at real directories of the tree or at the directory above the root
TreeSet ==
  { t \in [parent : [Entries -> {Root} \cup Entries],
           target : [Entries -> {NoLink, Above, Root} \cup Entries]] :
      \A e \in Entries :
        /\ t.parent[e] < e
        /\ t.parent[e] # Root => t.target[t.parent[e]] = NoLink
        /\ t.target[e] \in Entries =>
             t.target[e] # e /\ t.target[t.target[e]] = NoLink }

\* Path.resolve() / Path.stat(): the real directory a path denotes
LastOf(path) == path[Len(path)]
Resolve(t, path) ==
  IF IsReal(t, LastOf(path)) THEN LastOf(path) ELSE t.target[LastOf(path)]

\* the resolved absolute path of a real directory
RECURSIVE CanonPath(_, _)
CanonPath(t, d) ==
  IF d = Above THEN <<Above>>
  ELSE IF d = Root THEN <<Above, Root>>
  ELSE Append(CanonPath(t, t.parent[d]), d)

RootPath == <<Above, Root>>

\* Path.relative_to succeeds
IsPrefix(p, q) == Len(p) <= Len(q) /\ SubSeq(q, 1, Len(p)) = p

\* SymlinkHandler.is_symlink_or_junction
is_symlink_or_junction(t, path) == ~IsReal(t, LastOf(path))

\* SymlinkHandler._is_parent_loop
is_parent_loop(link_path, target_path) == IsPrefix(target_path, link_path)

\* SymlinkHandler.should_follow_link
should_follow_link(t, path, follow) ==
  IF ~is_symlink_or_junction(t, path) THEN TRUE
  ELSE IF ~follow THEN FALSE
  ELSE ~is_parent_loop(path, CanonPath(t, Resolve(t, path)))

\* is_visited with the check lost: nothing ever counts as visited
is_visited_never(t, vp, vi, path) == FALSE

\* SymlinkHandler.is_visited
is_visited(t, vp, vi, path) ==
  \/ CanonPath(t, Resolve(t, path)) \in vp
  \/ Resolve(t, path) \in vi

\* SymlinkHandler.mark_visited
mark_visited_paths(t, vp, path) == vp \cup {CanonPath(t, Resolve(t, path))}
mark_visited_inodes(t, vi, path) == vi \cup {Resolve(t, path)}

\* current_dir.iterdir() restricted to item.is_dir()
ChildEntries(t, d) ==
  IF d = Above THEN {Root} ELSE {e \in EntriesOf(t) : t.parent[e] = d}

\* the subdirs list without the is_visited filter
Subdirs_unfiltered(t, vp, vi, path) ==
  { Append(path, e) : e \in ChildEntries(t, Resolve(t, path)) }

\* the subdirs list built after the callback: items not yet visited
Subdirs(t, vp, vi, path) ==
  { Append(path, e) : e \in
      { c \in ChildEntries(t, Resolve(t, path)) :
          ~is_visited(t, vp, vi, Append(path, c)) } }

\* iterdir() yields its items in an arbitrary order
Orderings(S) ==
  { s \in [1..Cardinality(S) -> S] : \A i, j \in 1..Cardinality(S) : i # j => s[i] # s[j] }

(***************************************************************************)
(* Text: file names, digest lines and their formatting and parsing.        *)
(* A string is a sequence of one-character strings, a text file a sequence *)
(* of lines (each written with its trailing newline).                      *)
(***************************************************************************)
\* the characters used, in code-point order
CharOrder == <<" ", "#", ".", "/", "0", "1", "2", "3", "4", "5", "6",
               "A", "D", "E", "F", "M", "R", "\\",
               "a", "b", "c", "d", "e", "f", "h", "j", "l", "m", "o", "p", "q",
               "r", "s", "t", "u", "x">>

Ord(c) == CHOOSE i \in DOMAIN CharOrder : CharOrder[i] = c

\* str.__lt__, the order sorted() puts file names in
RECURSIVE StrLess(_, _)
StrLess(s, t) ==
  IF s = <<>> THEN t # <<>>
  ELSE IF t = <<>> THEN FALSE
  ELSE IF Head(s) = Head(t) THEN StrLess(Tail(s), Tail(t))
  ELSE Ord(Head(s)) < Ord(Head(t))

\* sorted(names)
RECURSIVE SortedSeq(_)
SortedSeq(S) ==
  IF S = {} THEN <<>>
  ELSE LET m == CHOOSE x \in S : \A y \in S \ {x} : StrLess(x, y)
       IN <<m>> \o SortedSeq(S \ {m})

\* str.strip()
RECURSIVE LStrip(_)
LStrip(s) == IF s # <<>> /\ Head(s) = " " THEN LStrip(Tail(s)) ELSE s
RECURSIVE RStrip(_)
RStrip(s) ==
  IF s # <<>> /\ s[Len(s)] = " " THEN RStrip(SubSeq(s, 1, Len(s) - 1)) ELSE s
Strip(s) == RStrip(LStrip(s))

\* str.startswith('#')
IsComment(s) == s # <<>> /\ Head(s) = "#"

\* str.split('  ', 1)
SplitTwoSpaces(s) ==
  LET idx == {i \in 1..(Len(s) - 1) : s[i] = " " /\ s[i + 1] = " "}
  IN IF idx = {} THEN <<s>>
     ELSE LET i == CHOOSE k \in idx : \A m \in idx : k <= m
          IN <<SubSeq(s, 1, i - 1), SubSeq(s, i + 2, Len(s))>>

\* str.lower()
LowerChar(c) ==
  CASE c = "A" -> "a" [] c = "D" -> "d" [] c = "E" -> "e" [] c = "F" -> "f"
    [] c = "M" -> "m" [] c = "R" -> "r" [] OTHER -> c
Lower(s) == [i \in DOMAIN s |-> LowerChar(s[i])]

\* str.replace(a, b) for single characters
ReplaceChar(s, a, b) == [i \in DOMAIN s |-> IF s[i] = a THEN b ELSE s[i]]

\* reserved file names
SHASUM_FILENAME == <<".", "s">>
STATE_FILENAME == <<".", "j">>
\* MONOLITHIC_DEFAULT_NAME + "." + algorithm, its .tmp and its .bak
MonoName == <<"c", ".", "h">>
TempName == MonoName \o <<".", "t">>
BakName == MonoName \o <<".", "b">>

\* names of the directory entries below the root
DirChars == <<"p", "q", "r", "s", "t", "u">>
DirName(e) == <<DirChars[e]>>

\* time.strftime(...) at the given clock value
TsChars == <<"1", "2", "3", "4", "5", "6">>
Timestamp(c) == TsChars[c]

\* "# Dazzle checksum tool v.. - <algorithm> - <timestamp>"
ShasumHeader(c) == <<"#", "D", Timestamp(c)>>
\* "# Dazzle monolithic checksum file v.. - <algorithm> - <timestamp>"
MonoHeader(c) == <<"#", "M", Timestamp(c)>>
\* the path of the tree that is generated over and verified
HerePath == <<"/", "h">>
\* "# Root directory: <root_path>"; "#R" stands for "# Root directory:"
RootMarker == <<"#", "R">>
RootLine(root_path) == RootMarker \o <<" ">> \o root_path
\* "# End of checksums"
EndMarker == <<"#", "E">>

\* a digest line written with a single space
FormatLine_one_space(hash, name) == hash \o <<" ">> \o name

\* f"{hash}  {name}"
FormatLine(hash, name) == hash \o <<" ", " ">> \o name

\* a path that does not exist on disk
NoFile == << <<"ENOENT">> >>

\* file contents are byte strings; Unreadable is a file whose read raises an
\* I/O error
Unreadable == <<"EACCES">>
CR == "\r"
LF == "\n"
NUL == "NUL"
Hello == <<"h">>
World == <<"w">>

\* hashlib: hasher.update(data); hasher.hexdigest() - different data give
\* different digests, the digest of no data is not empty
HexOf(byte) ==
  CASE byte = "h" -> "1" [] byte = "w" -> "2" [] byte = LF -> "a"
    [] byte = CR -> "d" [] byte = NUL -> "0" [] OTHER -> "f"
HashHex(data) == <<"5">> \o [i \in DOMAIN data |-> HexOf(data[i])]
\* the digest of one of the tool's own files (its value plays no role)
ToolHash == <<"0">>

\* Path.suffix: the last dot of the name and what follows it
Suffix(name) ==
  LET dots == {i \in 2..Len(name) : name[i] = "."}
  IN IF dots = {} THEN <<>>
     ELSE SubSeq(name, CHOOSE k \in dots : \A m \in dots : m <= k, Len(name))

\* LineEndingHandler.text_extensions (".t" stands for ".txt")
text_extensions == {<<".", "t">>}

\* LineEndingHandler.should_normalize: never under 'preserve'; by extension,
\* else by sniffing the content (Latin-1 decodes every byte string)
should_normalize(name, data, strategy) ==
  IF strategy = "preserve" THEN FALSE
  ELSE IF Lower(Suffix(name)) \in text_extensions THEN TRUE
  ELSE data # <<>> /\ \A i \in DOMAIN data : data[i] # NUL

\* text.replace('\r\n', '\n').replace('\r', '\n')
RECURSIVE ToUnix(_)
ToUnix(data) ==
  IF data = <<>> THEN <<>>
  ELSE IF Head(data) = CR
       THEN IF Len(data) >= 2 /\ data[2] = LF
            THEN <<LF>> \o ToUnix(Tail(Tail(data)))
            ELSE <<LF>> \o ToUnix(Tail(data))
       ELSE <<Head(data)>> \o ToUnix(Tail(data))

\* text.replace('\n', '\r\n')
RECURSIVE ToWindows(_)
ToWindows(data) ==
  IF data = <<>> THEN <<>>
  ELSE IF Head(data) = LF THEN <<CR, LF>> \o ToWindows(Tail(data))
  ELSE <<Head(data)>> \o ToWindows(Tail(data))

\* LineEndingHandler.normalize_content
normalize_content(data, strategy) ==
  CASE strategy = "preserve" -> data
    [] strategy \in {"unix", "auto"} -> ToUnix(data)
    [] strategy = "windows" -> ToWindows(ToUnix(data))

\* a hash routine that normalizes every file to nothing
hash_file_content_blind(name, data, strategy) == HashHex(<<>>)

\* DazzleHashCalculator._hash_file_content
hash_file_content(name, data, strategy) ==
  IF data = <<>> THEN HashHex(<<>>)
  ELSE IF should_normalize(name, data, strategy)
       THEN HashHex(normalize_content(data, strategy))
       ELSE HashHex(data)

(***************************************************************************)
(* The disk as the generator and the verifier see it                       *)
(***************************************************************************)
RealDirs(t) == {Root} \cup {e \in EntriesOf(t) : t.target[e] = NoLink}
LinkEntries(t) == {e \in EntriesOf(t) : t.target[e] # NoLink}

\* os.path.relpath(directory, root_path): the names below the root
RECURSIVE JoinNames(_)
JoinNames(comps) ==
  IF comps = <<>> THEN <<>>
  ELSE IF Len(comps) = 1 THEN DirName(comps[1])
  ELSE DirName(comps[1]) \o <<"/">> \o JoinNames(Tail(comps))
DirStr(path) == JoinNames(SubSeq(path, 3, Len(path)))

\* str(directory.resolve()), written relative to the root
ResolvedDirStr(t, path) == DirStr(CanonPath(t, Resolve(t, path)))

\* os.path.relpath(directory / filename, root_path).replace('\\', '/')
RelativePath(path, filename) ==
  ReplaceChar(IF DirStr(path) = <<>> THEN filename
              ELSE DirStr(path) \o <<"/">> \o filename, "\\", "/")

\* Path(relative_path).parent
ParentStr(rel) ==
  LET idx == {i \in DOMAIN rel : rel[i] = "/"}
  IN IF idx = {} THEN <<>>
     ELSE SubSeq(rel, 1, (CHOOSE k \in idx : \A m \in idx : m <= k) - 1)

\* the tree-wide file placed in the root directory whatever the mode
MonoInTree_always == TRUE
\* where the tree-wide file lives: under the shadow root, else in the root
MonoInTree == ~cfg.shadow

\* the per-directory digest file of directory d (write_shasum_file and
\* verify_checksums_in_directory pick the shadow path in shadow mode)
ShasumAt(d) == IF cfg.shadow THEN shasum_shadow[d] ELSE shasum_src[d]

\* directory.iterdir() restricted to f.is_file(): the names in directory d
Listing(d) ==
  DOMAIN files[d]
    \cup (IF shasum_src[d] # NoFile THEN {SHASUM_FILENAME} ELSE {})
    \cup (IF d = Root /\ MonoInTree
          THEN (IF mono_target # NoFile THEN {MonoName} ELSE {})
                 \cup (IF mono_temp # NoFile THEN {TempName} ELSE {})
                 \cup (IF mono_bak # NoFile THEN {BakName} ELSE {})
          ELSE {})

\* ChecksumGenerator.__init__: exclude_patterns, from the patterns the
\* caller passes (a pattern is a file name here) and generate_monolithic
exclude_patterns(given, monolithic) ==
  (IF given # {} THEN given ELSE {SHASUM_FILENAME, STATE_FILENAME})
    \cup (IF monolithic THEN {TempName} ELSE {})

\* execute_create_action: the generator is built with args.exclude
create_patterns == exclude_patterns(cfg.exclude, cfg.monolithic)

\* execute_verify_action: the generator is built without any patterns;
\* generate_monolithic is bool(output_file)
verify_patterns(monolithic) == exclude_patterns({}, monolithic)

\* _should_include_file_simple (no include patterns given)
should_include_file(name, patterns) ==
  /\ name \notin {SHASUM_FILENAME, STATE_FILENAME}
  /\ name \notin patterns

\* calculate_file_hash raises for this file
HashRaises(d, name) == name \in DOMAIN files[d] /\ files[d][name] = Unreadable

\* calculate_file_hash(directory / name): the native tool hashes the bytes
\* as they are, the Python routine applies the line-ending strategy
calculate_file_hash(d, name) ==
  IF name \notin DOMAIN files[d] THEN ToolHash
  ELSE IF cfg.native_tool THEN HashHex(files[d][name])
  ELSE hash_file_content(name, files[d][name], cfg.line_endings)

\* generate_checksums_for_directory: name -> hash of the included files of d
\* that could be hashed
generate_checksums_for_directory(d) ==
  [n \in {m \in Listing(d) :
             should_include_file(m, create_patterns) /\ ~HashRaises(d, m)}
     |-> calculate_file_hash(d, n)]

\* the lines append_directory_checksums writes for a directory
AppendLines(path, checksums) ==
  LET names == SortedSeq(DOMAIN checksums)
  IN [i \in DOMAIN names |->
        FormatLine(checksums[names[i]], RelativePath(path, names[i]))]

\* the file write_shasum_file writes for a directory
ShasumContent(checksums, now) ==
  LET names == SortedSeq(DOMAIN checksums)
  IN <<ShasumHeader(now)>>
       \o [i \in DOMAIN names |-> FormatLine(checksums[names[i]], names[i])]
       \o <<EndMarker>>

\* the data lines of a digest file as <<hash, name>> pairs, in file order:
\* strip, skip blank and comment lines, split at the first two spaces
DataLines(content) ==
  LET keep == {i \in DOMAIN content :
                 /\ Strip(content[i]) # <<>>
                 /\ ~IsComment(Strip(content[i]))
                 /\ Len(SplitTwoSpaces(Strip(content[i]))) = 2}
  IN {<<i, SplitTwoSpaces(Strip(content[i]))>> : i \in keep}

\* the relative paths _initialize_resume_state reads from a tree-wide file
MonoEntries(content) ==
  IF content = NoFile THEN {} ELSE {dl[2][2] : dl \in DataLines(content)}

\* how many data lines of a file carry this name
LinesNaming(content, name) ==
  Cardinality({dl \in DataLines(content) : dl[2][2] = name})

\* _initialize_resume_state: directories taken to be complete
resume_directories(t) ==
  (IF cfg.individual
   THEN {ResolvedDirStr(t, CanonPath(t, d)) : d \in {x \in RealDirs(t) : ShasumAt(x) # NoFile}}
   ELSE {})
  \cup
  (IF cfg.monolithic
   THEN {ParentStr(r) : r \in MonoEntries(mono_target)}
   ELSE {})

\* _should_skip_directory that never skips
should_skip_never(t, path) == FALSE

\* _should_skip_directory
should_skip_directory(t, path) ==
  resume_mode /\ ResolvedDirStr(t, path) \in processed_directories

\* a copy that keeps the footer
StripFooter_keeps(content) == content
\* MonolithicWriter.open, resume branch: the copy with the footer removed
StripFooter(content) ==
  IF content # <<>> /\ content[Len(content)] = EndMarker
  THEN SubSeq(content, 1, Len(content) - 1)
  ELSE content

\* an open that goes on with whatever temporary file it finds
OpenedTemp_reuses(resume, now) ==
  IF mono_temp # NoFile THEN mono_temp
  ELSE IF resume /\ mono_target # NoFile
  THEN StripFooter(mono_target)
  ELSE <<MonoHeader(now), RootLine(HerePath)>>
\* MonolithicWriter.open: what the temporary file holds once it is open
OpenedTemp(resume, now) ==
  IF resume /\ mono_target # NoFile
  THEN StripFooter(mono_target)
  ELSE <<MonoHeader(now), RootLine(HerePath)>>

NoDigestFile == [error |-> TRUE, verified |-> {}, failed |-> {},
                 missing |-> {}, extra |-> {}]
NotVerified == [error |-> FALSE, verified |-> {<<"?">>}, failed |-> {<<"?">>},
                missing |-> {<<"?">>}, extra |-> {<<"?">>}]

\* the generator after construction, on a disk without digest files
GenIdle ==
  /\ shasum_src = [d \in RealDirs(tree) |-> NoFile]
  /\ shasum_shadow = [d \in RealDirs(tree) |-> NoFile]
  /\ mono_target = NoFile
  /\ mono_temp = NoFile
  /\ mono_bak = NoFile
  /\ resume_mode = FALSE
  /\ processed_directories = {}
  /\ existing_monolithic_entries = {}
  /\ is_open = FALSE
  /\ entries_written = 0
  /\ gpc = "idle"
  /\ clock = 0
  /\ pre = [target |-> NoFile, src |-> shasum_src, shadow |-> shasum_shadow]
  /\ generated = {}
  /\ appended = <<>>
  /\ append_failed = FALSE
  /\ runs = <<>>
  /\ faults = 0
  /\ vresult = [d \in RealDirs(tree) |-> NotVerified]

\* nothing recorded elsewhere, no file probed, main() not entered
NoTotals == [tracking |-> FALSE, verified |-> 0, failed |-> 0, missing |-> 0,
             extra |-> 0]
NoArgs == [quiet |-> 0, verbose |-> 0, verbosity |-> 0, explicit |-> FALSE,
           log |-> FALSE, squelch |-> {}, show_all |-> FALSE,
           recursive |-> FALSE]
RecordedRoots == {HerePath, <<"/", "o">>, <<"/", "x", " ", " ", "y">>}
\* main() not entered
MainIdle ==
  /\ args = NoArgs
  /\ verbosity_config = 0
  /\ squelch_settings = {}
  /\ grand_totals = NoTotals
  /\ verification_exit_code = 0
  /\ dir_results = <<>>
  /\ pending = <<>>
  /\ printed = <<>>
  /\ cpc = "idle"

\* no tree-wide verification made
NoMonoResult == mresult = [r \in RecordedRoots |-> NotVerified]

CliIdle ==
  /\ origin = files
  /\ NoMonoResult
  /\ checksum_file = <<>>
  /\ detected = "unknown"
  /\ MainIdle

WalkerIdle ==
  /\ processing_queue = <<>>
  /\ visited_paths = {}
  /\ visited_inodes = {}
  /\ processed_count = 0
  /\ calls = <<>>
  /\ raised = {}
  /\ enqueued = <<>>
  /\ wpc = "idle"

WalkInit ==
  /\ tree \in TreeSet
  /\ follow_symlinks \in BOOLEAN
  /\ cfg = [individual |-> TRUE, monolithic |-> FALSE, shadow |-> FALSE,
            windows |-> FALSE, exclude |-> {}, line_endings |-> "auto",
            native_tool |-> FALSE]
  /\ files = [d \in RealDirs(tree) |-> [n \in {} |-> Hello]]
  /\ WalkerIdle
  /\ GenIdle
  /\ CliIdle

\* walk_and_process: self.processing_queue.append(root_path)
StartWalk ==
  /\ wpc = "idle"
  /\ processing_queue' = <<RootPath>>
  /\ enqueued' = <<RootPath>>
  /\ wpc' = "loop"
  /\ UNCHANGED <<tree, follow_symlinks, visited_paths, visited_inodes,
                 processed_count, calls, raised>>
  /\ UNCHANGED gvars
  /\ UNCHANGED cvars

current_dir == Head(processing_queue)

\* loop iteration: popleft, is_visited -> continue
SkipVisited ==
  /\ wpc = "loop" /\ processing_queue # <<>>
  /\ Len(current_dir) <= MaxPathLen
  /\ is_visited(tree, visited_paths, visited_inodes, current_dir)
  /\ processing_queue' = Tail(processing_queue)
  /\ UNCHANGED <<tree, follow_symlinks, visited_paths, visited_inodes,
                 processed_count, calls, raised, enqueued, wpc>>
  /\ UNCHANGED gvars
  /\ UNCHANGED cvars

\* loop iteration: mark_visited, should_follow_link false -> continue
SkipLink ==
  /\ wpc = "loop" /\ processing_queue # <<>>
  /\ Len(current_dir) <= MaxPathLen
  /\ ~is_visited(tree, visited_paths, visited_inodes, current_dir)
  /\ ~should_follow_link(tree, current_dir, follow_symlinks)
  /\ processing_queue' = Tail(processing_queue)
  /\ visited_paths' = mark_visited_paths(tree, visited_paths, current_dir)
  /\ visited_inodes' = mark_visited_inodes(tree, visited_inodes, current_dir)
  /\ UNCHANGED <<tree, follow_symlinks, processed_count, calls, raised,
                 enqueued, wpc>>
  /\ UNCHANGED gvars
  /\ UNCHANGED cvars

\* the loop with the subdirectories put at the front of the queue
WalkerReturns_stack ==
  /\ wpc = "loop" /\ processing_queue # <<>>
  /\ Len(current_dir) <= MaxPathLen
  /\ ~is_visited(tree, visited_paths, visited_inodes, current_dir)
  /\ should_follow_link(tree, current_dir, follow_symlinks)
  /\ visited_paths' = mark_visited_paths(tree, visited_paths, current_dir)
  /\ visited_inodes' = mark_visited_inodes(tree, visited_inodes, current_dir)
  /\ calls' = Append(calls, current_dir)
  /\ processed_count' = processed_count + 1
  /\ \E subdirs \in Orderings(Subdirs(tree, visited_paths', visited_inodes', current_dir)) :
       /\ processing_queue' = subdirs \o Tail(processing_queue)
       /\ enqueued' = enqueued \o subdirs
  /\ UNCHANGED <<tree, follow_symlinks, raised, wpc>>

\* loop iteration in which processor_func returns: the directory is marked,
\* counted, and its subdirectories that are not yet visited are enqueued
WalkerReturns ==
  /\ wpc = "loop" /\ processing_queue # <<>>
  /\ Len(current_dir) <= MaxPathLen
  /\ ~is_visited(tree, visited_paths, visited_inodes, current_dir)
  /\ should_follow_link(tree, current_dir, follow_symlinks)
  /\ visited_paths' = mark_visited_paths(tree, visited_paths, current_dir)
  /\ visited_inodes' = mark_visited_inodes(tree, visited_inodes, current_dir)
  /\ calls' = Append(calls, current_dir)
  /\ processed_count' = processed_count + 1
  /\ \E subdirs \in Orderings(Subdirs(tree, visited_paths', visited_inodes', current_dir)) :
       /\ processing_queue' = Tail(processing_queue) \o subdirs
       /\ enqueued' = enqueued \o subdirs
  /\ UNCHANGED <<tree, follow_symlinks, raised, wpc>>

\* the loop without the except clause: the exception ends the walk
WalkerRaises_aborts ==
  /\ wpc = "loop" /\ processing_queue # <<>>
  /\ Len(current_dir) <= MaxPathLen
  /\ ~is_visited(tree, visited_paths, visited_inodes, current_dir)
  /\ should_follow_link(tree, current_dir, follow_symlinks)
  /\ visited_paths' = mark_visited_paths(tree, visited_paths, current_dir)
  /\ visited_inodes' = mark_visited_inodes(tree, visited_inodes, current_dir)
  /\ calls' = Append(calls, current_dir)
  /\ raised' = raised \cup {current_dir}
  /\ processing_queue' = <<>>
  /\ UNCHANGED <<tree, follow_symlinks, processed_count, enqueued, wpc>>

\* loop iteration in which processor_func raises: the except clause logs
\* and continues with the next queue entry
WalkerRaises ==
  /\ wpc = "loop" /\ processing_queue # <<>>
  /\ Len(current_dir) <= MaxPathLen
  /\ ~is_visited(tree, visited_paths, visited_inodes, current_dir)
  /\ should_follow_link(tree, current_dir, follow_symlinks)
  /\ visited_paths' = mark_visited_paths(tree, visited_paths, current_dir)
  /\ visited_inodes' = mark_visited_inodes(tree, visited_inodes, current_dir)
  /\ calls' = Append(calls, current_dir)
  /\ raised' = raised \cup {current_dir}
  /\ processing_queue' = Tail(processing_queue)
  /\ UNCHANGED <<tree, follow_symlinks, processed_count, enqueued, wpc>>

\* the walk with a callback that returns (a callback of any kind)
ProcessDir == WalkerReturns /\ UNCHANGED gvars /\ UNCHANGED cvars

\* the walk with a callback that raises
ProcessDirRaises == WalkerRaises /\ UNCHANGED gvars /\ UNCHANGED cvars

\* while self.processing_queue: falls through when the queue is empty
FinishWalk ==
  /\ wpc = "loop" /\ processing_queue = <<>>
  /\ wpc' = "done"
  /\ UNCHANGED <<tree, follow_symlinks, processing_queue, visited_paths,
                 visited_inodes, processed_count, calls, raised, enqueued>>
  /\ UNCHANGED gvars
  /\ UNCHANGED cvars

WalkNext ==
  \/ StartWalk
  \/ SkipVisited
  \/ SkipLink
  \/ ProcessDir
  \/ ProcessDirRaises
  \/ FinishWalk

\* ShadowPathResolver.get_source_file_path(filename): source_root / filename,
\* so the directory a recorded name is looked up in
SourceDirOf(d) == IF cfg.shadow THEN Root ELSE d

\* the hash stored for a name: a later line replaces an earlier one
StoredHash(content, name) ==
  LET named == {dl \in DataLines(content) : dl[2][2] = name}
      last == CHOOSE dl \in named : \A o \in named : o[1] <= dl[1]
  IN Lower(last[2][1])

\* ChecksumGenerator.verify_checksums_in_directory
verify_checksums_in_directory(d) ==
  IF ShasumAt(d) = NoFile THEN NoDigestFile
  ELSE
    LET content == ShasumAt(d)
        stored == {dl[2][2] : dl \in DataLines(content)}
        fd == SourceDirOf(d)
        exists(n) == n \in Listing(fd)
        matches(n) ==
          /\ ~HashRaises(fd, n)
          /\ Lower(calculate_file_hash(fd, n)) = Lower(StoredHash(content, n))
    IN [error |-> FALSE,
        missing |-> {n \in stored : ~exists(n)},
        verified |-> {n \in stored : exists(n) /\ matches(n)},
        failed |-> {n \in stored : exists(n) /\ ~matches(n)},
        extra |-> {n \in Listing(d) :
                     should_include_file(n, verify_patterns(FALSE))} \ stored]

(***************************************************************************)
(* process_directory_tree in generation mode                               *)
(***************************************************************************)
RunRecord(how) ==
  [resume |-> resume_mode, exit |-> how, at |-> gpc, generated |-> generated,
   appended |-> appended, failed |-> append_failed, pre |-> pre.target]

\* process_directory_tree up to the walk: _initialize_resume_state, the
\* writer is built and opened by the with statement, the walker is built
GenStart(resume) ==
  /\ gpc = "idle" /\ clock < MaxRuns
  /\ clock' = clock + 1
  /\ resume_mode' = resume
  /\ processed_directories' = IF resume THEN resume_directories(tree) ELSE {}
  /\ existing_monolithic_entries' =
       IF resume /\ cfg.monolithic THEN MonoEntries(mono_target) ELSE {}
  /\ IF cfg.monolithic
     THEN /\ mono_temp' = OpenedTemp(resume, clock')
          /\ is_open' = TRUE
     ELSE UNCHANGED <<mono_temp, is_open>>
  /\ entries_written' = 0
  /\ processing_queue' = <<RootPath>>
  /\ enqueued' = <<RootPath>>
  /\ visited_paths' = {}
  /\ visited_inodes' = {}
  /\ processed_count' = 0
  /\ calls' = <<>>
  /\ raised' = {}
  /\ wpc' = "loop"
  /\ pre' = [target |-> mono_target, src |-> shasum_src, shadow |-> shasum_shadow]
  /\ generated' = {}
  /\ appended' = <<>>
  /\ append_failed' = FALSE
  /\ gpc' = "walk"
  /\ UNCHANGED <<tree, follow_symlinks, cfg, files, shasum_src, shasum_shadow,
                 mono_target, mono_bak, runs, faults, vresult>>
  /\ UNCHANGED cvars

\* process_single_directory returns at once: the directory is skipped
GenDirSkip ==
  /\ gpc = "walk"
  /\ WalkerReturns
  /\ should_skip_directory(tree, current_dir)
  /\ UNCHANGED gvars
  /\ UNCHANGED cvars

\* process_single_directory hashes the directory and writes its entries
GenDirOK ==
  /\ gpc = "walk"
  /\ WalkerReturns
  /\ ~should_skip_directory(tree, current_dir)
  /\ LET d == Resolve(tree, current_dir)
         checksums == generate_checksums_for_directory(d)
         lines == AppendLines(current_dir, checksums)
     IN /\ generated' = generated \cup {d}
        /\ IF DOMAIN checksums # {} /\ cfg.monolithic
           THEN /\ mono_temp' = mono_temp \o lines
                /\ entries_written' = entries_written + Len(lines)
                /\ appended' = appended \o
                     [i \in DOMAIN lines |-> SplitTwoSpaces(lines[i])[2]]
           ELSE UNCHANGED <<mono_temp, entries_written, appended>>
        /\ IF DOMAIN checksums # {} /\ cfg.individual
           THEN IF cfg.shadow
                THEN /\ shasum_shadow' =
                          [shasum_shadow EXCEPT ![d] = ShasumContent(checksums, clock)]
                     /\ UNCHANGED shasum_src
                ELSE /\ shasum_src' =
                          [shasum_src EXCEPT ![d] = ShasumContent(checksums, clock)]
                     /\ UNCHANGED shasum_shadow
           ELSE UNCHANGED <<shasum_src, shasum_shadow>>
  /\ UNCHANGED <<cfg, files, mono_target, mono_bak, resume_mode,
                 processed_directories, existing_monolithic_entries, is_open,
                 gpc, clock, pre, append_failed, runs, faults, vresult>>
  /\ UNCHANGED cvars

\* append_directory_checksums raises after k lines: the exception leaves
\* process_single_directory and is caught by the walker
GenDirRaises ==
  /\ gpc = "walk"
  /\ WalkerRaises
  /\ ~should_skip_directory(tree, current_dir)
  /\ cfg.monolithic
  /\ LET d == Resolve(tree, current_dir)
         checksums == generate_checksums_for_directory(d)
         lines == AppendLines(current_dir, checksums)
     IN /\ DOMAIN checksums # {}
        /\ generated' = generated \cup {d}
        /\ \E k \in 0..Len(lines) :
             /\ mono_temp' = mono_temp \o SubSeq(lines, 1, k)
             /\ entries_written' = entries_written + k
             /\ appended' = appended \o
                  [i \in 1..k |-> SplitTwoSpaces(lines[i])[2]]
  /\ append_failed' = TRUE
  /\ faults < MaxFaults
  /\ faults' = faults + 1
  /\ UNCHANGED <<cfg, files, shasum_src, shasum_shadow, mono_target, mono_bak,
                 resume_mode, processed_directories,
                 existing_monolithic_entries, is_open, gpc, clock, pre, runs,
                 vresult>>
  /\ UNCHANGED cvars

\* the walk returns normally; the with statement calls close(success=True),
\* which writes the footer and closes the handle
GenEndWalk ==
  /\ gpc = "walk" /\ wpc = "loop" /\ processing_queue = <<>>
  /\ wpc' = "done"
  /\ IF cfg.monolithic
     THEN /\ mono_temp' = mono_temp \o <<EndMarker>>
          /\ gpc' = "replace"
          /\ UNCHANGED runs
     ELSE /\ gpc' = "idle"
          /\ runs' = Append(runs, RunRecord("completed"))
          /\ UNCHANGED mono_temp
  /\ UNCHANGED <<tree, follow_symlinks, processing_queue, visited_paths,
                 visited_inodes, processed_count, calls, raised, enqueued>>
  /\ UNCHANGED <<cfg, files, shasum_src, shasum_shadow, mono_target, mono_bak,
                 resume_mode, processed_directories,
                 existing_monolithic_entries, is_open, entries_written, clock,
                 pre, generated, appended, append_failed, faults, vresult>>
  /\ UNCHANGED cvars

\* _atomic_replace: src.rename(dst), on Unix or when no target exists
CommitRename ==
  /\ gpc = "replace"
  /\ ~cfg.windows \/ mono_target = NoFile
  /\ mono_target' = mono_temp
  /\ mono_temp' = NoFile
  /\ is_open' = FALSE
  /\ gpc' = "idle"
  /\ runs' = Append(runs, RunRecord("completed"))
  /\ UNCHANGED wvars
  /\ UNCHANGED <<cfg, files, shasum_src, shasum_shadow, mono_bak, resume_mode,
                 processed_directories, existing_monolithic_entries,
                 entries_written, clock, pre, generated, appended,
                 append_failed, faults, vresult>>
  /\ UNCHANGED cvars

\* _atomic_replace on Windows: an old backup is removed and the target is
\* moved to the backup path
WinBackup ==
  /\ gpc = "replace"
  /\ cfg.windows /\ mono_target # NoFile
  /\ mono_bak' = mono_target
  /\ mono_target' = NoFile
  /\ gpc' = "replace_move"
  /\ UNCHANGED wvars
  /\ UNCHANGED <<cfg, files, shasum_src, shasum_shadow, mono_temp, resume_mode,
                 processed_directories, existing_monolithic_entries, is_open,
                 entries_written, clock, pre, generated, appended,
                 append_failed, runs, faults, vresult>>
  /\ UNCHANGED cvars

\* _atomic_replace on Windows: src.rename(dst)
WinMove ==
  /\ gpc = "replace_move"
  /\ mono_target' = mono_temp
  /\ mono_temp' = NoFile
  /\ gpc' = "replace_unlink"
  /\ UNCHANGED wvars
  /\ UNCHANGED <<cfg, files, shasum_src, shasum_shadow, mono_bak, resume_mode,
                 processed_directories, existing_monolithic_entries, is_open,
                 entries_written, clock, pre, generated, appended,
                 append_failed, runs, faults, vresult>>
  /\ UNCHANGED cvars

\* _atomic_replace on Windows: backup_path.unlink(), then close() returns
WinUnlinkBackup ==
  /\ gpc = "replace_unlink"
  /\ mono_bak' = NoFile
  /\ is_open' = FALSE
  /\ gpc' = "idle"
  /\ runs' = Append(runs, RunRecord("completed"))
  /\ UNCHANGED wvars
  /\ UNCHANGED <<cfg, files, shasum_src, shasum_shadow, mono_target, mono_temp,
                 resume_mode, processed_directories,
                 existing_monolithic_entries, entries_written, clock, pre,
                 generated, appended, append_failed, faults, vresult>>
  /\ UNCHANGED cvars

\* the process is killed (no handler runs): memory is lost, the disk stays
Kill ==
  /\ gpc # "idle"
  /\ faults < MaxFaults
  /\ faults' = faults + 1
  /\ gpc' = "idle"
  /\ is_open' = FALSE
  /\ runs' = Append(runs, RunRecord("killed"))
  /\ UNCHANGED wvars
  /\ UNCHANGED <<cfg, files, shasum_src, shasum_shadow, mono_target, mono_temp,
                 mono_bak, resume_mode, processed_directories,
                 existing_monolithic_entries, entries_written, clock, pre,
                 generated, appended, append_failed, vresult>>
  /\ UNCHANGED cvars

\* the process is killed inside write_shasum_file, which writes the file in
\* place: the lines that reached the disk are a proper prefix of the file
\* (none of them when the buffer was never flushed).  In mode both the
\* entries were appended to the tree-wide temporary file before
KillInWrite ==
  /\ gpc = "walk"
  /\ WalkerReturns
  /\ ~should_skip_directory(tree, current_dir)
  /\ cfg.individual
  /\ faults < MaxFaults
  /\ faults' = faults + 1
  /\ LET d == Resolve(tree, current_dir)
         checksums == generate_checksums_for_directory(d)
         lines == AppendLines(current_dir, checksums)
         content == ShasumContent(checksums, clock)
     IN /\ DOMAIN checksums # {}
        /\ generated' = generated \cup {d}
        /\ IF cfg.monolithic
           THEN /\ mono_temp' = mono_temp \o lines
                /\ entries_written' = entries_written + Len(lines)
                /\ appended' = appended \o
                     [i \in DOMAIN lines |-> SplitTwoSpaces(lines[i])[2]]
           ELSE UNCHANGED <<mono_temp, entries_written, appended>>
        /\ \E k \in 0..(Len(content) - 1) :
             IF cfg.shadow
             THEN /\ shasum_shadow' =
                       [shasum_shadow EXCEPT ![d] = SubSeq(content, 1, k)]
                  /\ UNCHANGED shasum_src
             ELSE /\ shasum_src' =
                       [shasum_src EXCEPT ![d] = SubSeq(content, 1, k)]
                  /\ UNCHANGED shasum_shadow
  /\ gpc' = "idle"
  /\ is_open' = FALSE
  /\ runs' = Append(runs, [RunRecord("killed") EXCEPT !.generated = generated'])
  /\ UNCHANGED <<cfg, files, mono_target, mono_bak, resume_mode,
                 processed_directories, existing_monolithic_entries, clock,
                 pre, append_failed, vresult>>
  /\ UNCHANGED cvars

\* KeyboardInterrupt is raised in the main thread.  During the walk it
\* leaves the with statement, whose __exit__ calls close(success=False):
\* the handle is closed and _cleanup_temp removes the temporary file.
\* Inside close(success=True), after the handle was closed, it is not an
\* Exception: the except clause of close does not run, only its finally
Interrupt ==
  /\ gpc # "idle"
  /\ faults < MaxFaults
  /\ faults' = faults + 1
  /\ IF gpc = "walk" /\ cfg.monolithic
     THEN mono_temp' = NoFile
     ELSE UNCHANGED mono_temp
  /\ is_open' = FALSE
  /\ gpc' = "idle"
  /\ runs' = Append(runs, RunRecord("interrupted"))
  /\ UNCHANGED wvars
  /\ UNCHANGED <<cfg, files, shasum_src, shasum_shadow, mono_target, mono_bak,
                 resume_mode, processed_directories,
                 existing_monolithic_entries, entries_written, clock, pre,
                 generated, appended, append_failed, vresult>>
  /\ UNCHANGED cvars

\* verify_checksums_in_directory(d) after a finished generation
VerifyDir(d) ==
  /\ gpc = "idle" /\ runs # <<>>
  /\ vresult[d] = NotVerified
  /\ vresult' = [vresult EXCEPT ![d] = verify_checksums_in_directory(d)]
  /\ UNCHANGED wvars
  /\ UNCHANGED <<cfg, files, shasum_src, shasum_shadow, mono_target, mono_temp,
                 mono_bak, resume_mode, processed_directories,
                 existing_monolithic_entries, is_open, entries_written, gpc,
                 clock, pre, generated, appended, append_failed, runs, faults>>
  /\ UNCHANGED cvars

\* trees of real directories only
GenTreeSet ==
  { t \in [parent : [1..NumGenDirs -> 0..NumGenDirs],
           target : [1..NumGenDirs -> {NoLink}]] :
      \A e \in 1..NumGenDirs : t.parent[e] < e }

\* the four line-ending strategies
Strategies == {"auto", "unix", "windows", "preserve"}

\* at least one of the two output modes; no exclude option, the default
\* line-ending strategy, hashing in Python
CfgSet ==
  { c \in [individual : BOOLEAN, monolithic : BOOLEAN, shadow : BOOLEAN,
           windows : BOOLEAN, exclude : {{}}, line_endings : {"auto"},
           native_tool : {FALSE}] : c.individual \/ c.monolithic }

\* file sets with plain names and readable content
PlainFiles ==
  { [n \in {} |-> Hello],
    [n \in {<<"a">>, <<"b">>} |-> IF n = <<"a">> THEN Hello ELSE World] }

GenInit ==
  /\ tree \in GenTreeSet
  /\ follow_symlinks = FALSE
  /\ cfg \in CfgSet
  /\ files \in [RealDirs(tree) -> PlainFiles]
  /\ WalkerIdle
  /\ GenIdle
  /\ CliIdle

GenNext ==
  \/ \E resume \in BOOLEAN : GenStart(resume)
  \/ GenDirSkip
  \/ GenDirOK
  \/ GenDirRaises
  \/ GenEndWalk
  \/ CommitRename
  \/ WinBackup
  \/ WinMove
  \/ WinUnlinkBackup
  \/ Kill
  \/ KillInWrite
  \/ Interrupt

SpecGen == GenInit /\ [][GenNext]_vars

\* file sets with a name that holds a backslash, a legal character of a
\* file name on Unix
SlashFiles ==
  { [n \in {} |-> Hello],
    [n \in {<<"a">>} |-> Hello],
    [n \in {<<"a">>, <<"p", "\\", "a">>} |-> IF n = <<"a">> THEN Hello ELSE World] }

\* tree-wide generation on Unix over such files
NamesInit ==
  /\ tree \in GenTreeSet
  /\ follow_symlinks = FALSE
  /\ cfg \in {c \in CfgSet : c.monolithic /\ ~c.windows}
  /\ files \in [RealDirs(tree) -> SlashFiles]
  /\ WalkerIdle
  /\ GenIdle
  /\ CliIdle

NamesNext ==
  \/ \E resume \in BOOLEAN : GenStart(resume)
  \/ GenDirSkip
  \/ GenDirOK
  \/ GenEndWalk
  \/ CommitRename
  \/ Kill

SpecNames == NamesInit /\ [][NamesNext]_vars

\* file sets for verification: also a name ending in a space and a file
\* that cannot be read
VerifyFiles ==
  PlainFiles \cup
  { [n \in {<<"b", " ">>} |-> World],
    [n \in {<<"a">>} |-> World],
    [n \in {<<"a">>, <<"u">>} |-> IF n = <<"a">> THEN Hello ELSE Unreadable] }

VerifyInit ==
  /\ tree \in GenTreeSet
  /\ follow_symlinks = FALSE
  /\ cfg \in {c \in CfgSet : c.individual /\ ~c.monolithic /\ ~c.windows}
  /\ files \in [RealDirs(tree) -> VerifyFiles]
  /\ WalkerIdle
  /\ GenIdle
  /\ CliIdle

VerifyNext ==
  \/ GenStart(FALSE)
  \/ GenDirOK
  \/ GenEndWalk
  \/ \E d \in RealDirs(tree) : VerifyDir(d)

SpecVerify == VerifyInit /\ [][VerifyNext]_vars

(***************************************************************************)
(* Verification against a tree-wide digest file, and verification of a     *)
(* tree that was changed after its digest files were written               *)
(***************************************************************************)
\* the path the digest file was generated at, where the original tree lives
OriginPath == <<"/", "o">>

\* the names in directory d of the tree at a path: the tree that is
\* verified, the original it was copied from, or nothing at all
NamesAt(root, d) ==
  IF root = HerePath THEN Listing(d)
  ELSE IF root = OriginPath THEN DOMAIN origin[d]
  ELSE {}

\* os.sep
os_sep == IF cfg.windows THEN "\\" ELSE "/"

\* Path(relative_path).name
BaseName(rel) ==
  LET idx == {i \in DOMAIN rel : rel[i] = "/"}
  IN IF idx = {} THEN rel
     ELSE SubSeq(rel, (CHOOSE k \in idx : \A m \in idx : m <= k) + 1, Len(rel))

\* base_path / relative_path: the directory and the name a key denotes
KeyPath(key) == IF cfg.windows THEN ReplaceChar(key, "\\", "/") ELSE key
DirsNamed(key) ==
  {d \in RealDirs(tree) : DirStr(CanonPath(tree, d)) = ParentStr(KeyPath(key))}

\* file_path.exists()
ExistsAt(root, key) ==
  \E d \in DirsNamed(key) : BaseName(KeyPath(key)) \in NamesAt(root, d)

\* calculate_file_hash(file_path) raises / returns
HashRaisesAt(root, key) ==
  \E d \in DirsNamed(key) :
    LET n == BaseName(KeyPath(key))
        t == IF root = HerePath THEN files ELSE origin
    IN n \in DOMAIN t[d] /\ t[d][n] = Unreadable
HashAt(root, key) ==
  LET d == CHOOSE x \in DirsNamed(key) : BaseName(KeyPath(key)) \in NamesAt(root, x)
      n == BaseName(KeyPath(key))
      t == IF root = HerePath THEN files ELSE origin
  IN IF n \notin DOMAIN t[d] THEN ToolHash
     ELSE IF cfg.native_tool THEN HashHex(t[d][n])
     ELSE hash_file_content(n, t[d][n], cfg.line_endings)

\* line.startswith('# Root directory:')
IsRootLine(line) == IsPrefix(RootMarker, line)

\* file_root: line.split(':', 1)[1].strip() of the last root line, or None
file_root_of(content) ==
  LET idx == {i \in DOMAIN content : IsRootLine(Strip(content[i]))}
  IN IF idx = {} THEN <<>>
     ELSE LET i == CHOOSE k \in idx : \A m \in idx : m <= k
              line == Strip(content[i])
          IN Strip(SubSeq(line, Len(RootMarker) + 1, Len(line)))

\* entries resolved under the root the file records
base_path_recorded(file_root, root_directory) ==
  IF file_root # <<>> THEN file_root ELSE root_directory

\* base_path = root_directory: always the user-specified directory
base_path(file_root, root_directory) == root_directory

\* ChecksumGenerator.verify_monolithic_file
verify_monolithic_file(content, root_directory) ==
  IF content = NoFile THEN NoDigestFile
  ELSE
    LET keyof(dl) == ReplaceChar(dl[2][2], "/", os_sep)
        stored == {keyof(dl) : dl \in DataLines(content)}
        hashof(key) ==
          LET named == {dl \in DataLines(content) : keyof(dl) = key}
              last == CHOOSE dl \in named : \A o \in named : o[1] <= dl[1]
          IN Lower(last[2][1])
        base == base_path(file_root_of(content), root_directory)
        matches(key) ==
          /\ ~HashRaisesAt(base, key)
          /\ Lower(HashAt(base, key)) = Lower(hashof(key))
    IN [error |-> FALSE,
        missing |-> {k \in stored : ~ExistsAt(base, k)},
        verified |-> {k \in stored : ExistsAt(base, k) /\ matches(k)},
        failed |-> {k \in stored : ExistsAt(base, k) /\ ~matches(k)},
        extra |-> {}]

\* a tree-wide digest file that differs only in the path of its root line
WithRoot(content, r) ==
  [i \in DOMAIN content |->
     IF IsRootLine(content[i]) THEN RootLine(r) ELSE content[i]]

\* verify_monolithic_file on the committed file as recorded at root r
VerifyMono(r) ==
  /\ gpc = "idle" /\ runs # <<>>
  /\ mono_target # NoFile
  /\ mresult[r] = NotVerified
  /\ mresult' = [mresult EXCEPT
                   ![r] = verify_monolithic_file(WithRoot(mono_target, r), HerePath)]
  /\ UNCHANGED <<wvars, gvars>>
  /\ UNCHANGED <<origin, checksum_file, detected, args, verbosity_config,
                 squelch_settings, grand_totals, verification_exit_code,
                 dir_results, pending, printed, cpc>>

\* the files that differ between the verified tree and the original
Edited ==
  {dn \in RealDirs(tree) \X (DOMAIN files[Root] \cup UNION {DOMAIN files[d] \cup DOMAIN origin[d] : d \in RealDirs(tree)}) :
     \/ (dn[2] \in DOMAIN files[dn[1]]) # (dn[2] \in DOMAIN origin[dn[1]])
     \/ /\ dn[2] \in DOMAIN files[dn[1]]
        /\ dn[2] \in DOMAIN origin[dn[1]]
        /\ files[dn[1]][dn[2]] # origin[dn[1]][dn[2]]}

\* generation has ended and nothing has been verified yet
MayEdit ==
  /\ gpc = "idle" /\ runs # <<>>
  /\ \A d \in RealDirs(tree) : vresult[d] = NotVerified
  /\ \A r \in RecordedRoots : mresult[r] = NotVerified
  /\ Cardinality(Edited) < MaxEdits

\* what a file is overwritten with, and what a new file is called
EditData == {Hello, World}
NewNames == {<<"x">>}

\* a recorded file is overwritten with other content
Tamper(d, n, data) ==
  /\ MayEdit
  /\ n \in DOMAIN files[d] /\ files[d][n] # data
  /\ files' = [files EXCEPT ![d][n] = data]

\* a recorded file is deleted
Remove(d, n) ==
  /\ MayEdit
  /\ n \in DOMAIN files[d]
  /\ files' = [files EXCEPT ![d] = [m \in DOMAIN files[d] \ {n} |-> files[d][m]]]

\* a file is created
AddFile(d, n, data) ==
  /\ MayEdit
  /\ n \notin DOMAIN files[d]
  /\ files' = [files EXCEPT
                 ![d] = [m \in DOMAIN files[d] \cup {n} |->
                           IF m = n THEN data ELSE files[d][m]]]

\* somebody edits the tree between generation and verification
EditTree ==
  /\ \E d \in RealDirs(tree) :
       \/ \E n \in DOMAIN files[d] : \E data \in EditData : Tamper(d, n, data)
       \/ \E n \in DOMAIN files[d] : Remove(d, n)
       \/ \E n \in NewNames : \E data \in EditData : AddFile(d, n, data)
  /\ UNCHANGED wvars
  /\ UNCHANGED <<cfg, shasum_src, shasum_shadow, mono_target, mono_temp,
                 mono_bak, resume_mode, processed_directories,
                 existing_monolithic_entries, is_open, entries_written, gpc,
                 clock, pre, generated, appended, append_failed, runs, faults,
                 vresult>>
  /\ UNCHANGED cvars

\* file sets with a file the exclude option of the create run names
CheckFiles ==
  { [n \in {} |-> Hello],
    [n \in {<<"a">>, <<"c">>} |-> IF n = <<"a">> THEN Hello ELSE World] }

\* one output mode, with or without shadow root, with or without --exclude c
CheckCfgSet ==
  { c \in [individual : BOOLEAN, monolithic : BOOLEAN, shadow : BOOLEAN,
           windows : {FALSE}, exclude : {{}, {<<"c">>}},
           line_endings : {"auto"}, native_tool : {FALSE}] :
      c.individual # c.monolithic }

CheckInit ==
  /\ tree \in GenTreeSet
  /\ follow_symlinks = FALSE
  /\ cfg \in CheckCfgSet
  /\ files \in [RealDirs(tree) -> CheckFiles]
  /\ WalkerIdle
  /\ GenIdle
  /\ CliIdle

CheckNext ==
  \/ runs = <<>> /\ GenStart(FALSE)
  \/ GenDirOK
  \/ GenEndWalk
  \/ CommitRename
  \/ EditTree
  \/ \E d \in RealDirs(tree) : cfg.individual /\ VerifyDir(d)
  \/ \E r \in RecordedRoots : VerifyMono(r)

SpecCheck == CheckInit /\ [][CheckNext]_vars

\* generation runs repeated on a tree that is edited after the first run
RegenNext ==
  \/ GenStart(FALSE)
  \/ GenDirOK
  \/ GenEndWalk
  \/ CommitRename
  \/ Len(runs) = 1 /\ EditTree

SpecRegen == CheckInit /\ [][RegenNext]_vars

(***************************************************************************)
(* Overwriting a recorded file under the four line-ending strategies       *)
(***************************************************************************)
\* byte strings with the three line terminators, with and without a null
\* byte, and the empty file
LineData ==
  { <<"h", LF>>, <<"h", CR, LF>>, <<"h", CR>>, <<"h", NUL, LF>>,
    <<"h", NUL, CR, LF>>, <<>> }

\* a file with a text extension and a file without extension
TextName == <<"a", ".", "t">>
PlainName == <<"b">>
LineFiles ==
  { [n \in {} |-> Hello],
    [n \in {TextName, PlainName} |->
       IF n = TextName THEN <<"h", LF>> ELSE <<"h", CR, LF>>] }

\* a recorded file is overwritten with other bytes
TamperTree ==
  /\ \E d \in RealDirs(tree) : \E n \in DOMAIN files[d] :
       \E data \in LineData : Tamper(d, n, data)
  /\ UNCHANGED wvars
  /\ UNCHANGED <<cfg, shasum_src, shasum_shadow, mono_target, mono_temp,
                 mono_bak, resume_mode, processed_directories,
                 existing_monolithic_entries, is_open, entries_written, gpc,
                 clock, pre, generated, appended, append_failed, runs, faults,
                 vresult>>
  /\ UNCHANGED cvars

\* per-directory files, every strategy, hashing natively or in Python
TamperCfgSet ==
  [individual : {TRUE}, monolithic : {FALSE}, shadow : {FALSE},
   windows : {FALSE}, exclude : {{}}, line_endings : Strategies,
   native_tool : BOOLEAN]

TamperInit ==
  /\ tree \in GenTreeSet
  /\ follow_symlinks = FALSE
  /\ cfg \in TamperCfgSet
  /\ files \in [RealDirs(tree) -> LineFiles]
  /\ WalkerIdle
  /\ GenIdle
  /\ CliIdle

TamperNext ==
  \/ runs = <<>> /\ GenStart(FALSE)
  \/ GenDirOK
  \/ GenEndWalk
  \/ TamperTree
  \/ \E d \in RealDirs(tree) : VerifyDir(d)

SpecTamper == TamperInit /\ [][TamperNext]_vars

(***************************************************************************)
(* is_monolithic_file                                                      *)
(***************************************************************************)
\* in a comment line the letter M stands for the word "monolithic" and the
\* letter R for the words "Root directory:", in either case
MonolithicWord == "m"
RootDirectoryWord == "r"

\* word in line.lower()
Mentions(line, word) == \E i \in DOMAIN line : Lower(line)[i] = word

\* '/' in filename or '\\' in filename
HasSeparator(filename) ==
  \E i \in DOMAIN filename : filename[i] \in {"/", "\\"}

\* enumerate(f) stops at i > 10: the lines that are read
LinesRead == 11

\* the loop of is_monolithic_file from line i on
RECURSIVE ScanFrom(_, _)
ScanFrom(content, i) ==
  IF i > Len(content) \/ i > LinesRead THEN FALSE
  ELSE LET line == Strip(content[i])
       IN IF line = <<>> \/ IsComment(line)
          THEN IF Mentions(line, MonolithicWord)
                    \/ Mentions(line, RootDirectoryWord)
               THEN TRUE
               ELSE ScanFrom(content, i + 1)
          ELSE LET parts == SplitTwoSpaces(line)
               IN Len(parts) = 2 /\ HasSeparator(parts[2])

is_monolithic_file(content) == ScanFrom(content, 1)

\* the lines checksum files are made of: the two headers, the root line,
\* the end marker, a blank line, and entries with a plain name, with a name
\* below a directory written with either separator, and with one space
DetectLines ==
  { ShasumHeader(1), MonoHeader(1), RootLine(HerePath), EndMarker, <<>>,
    FormatLine(<<"5">>, <<"a">>),
    FormatLine(<<"5">>, <<"p", "/", "a">>),
    FormatLine(<<"5">>, <<"p", "\\", "a">>),
    <<"5", " ", "p", "/", "a">> }

RECURSIVE Repeat(_, _)
Repeat(line, k) == IF k = 0 THEN <<>> ELSE <<line>> \o Repeat(line, k - 1)

\* short files of any lines, and files whose last line comes after nine to
\* twelve end markers
DetectFiles ==
  UNION { [1..n -> DetectLines] : n \in 0..MaxLines }
    \cup { Repeat(EndMarker, k) \o <<l>> :
             k \in (LinesRead - 2)..(LinesRead + 1), l \in DetectLines }

\* the tree with every directory directly below the root
FlatTree == [parent |-> [e \in 1..NumGenDirs |-> 0],
             target |-> [e \in 1..NumGenDirs |-> NoLink]]

DefaultCfg == [individual |-> TRUE, monolithic |-> FALSE, shadow |-> FALSE,
               windows |-> FALSE, exclude |-> {}, line_endings |-> "auto",
               native_tool |-> FALSE]

DetectInit ==
  /\ tree = FlatTree
  /\ follow_symlinks = FALSE
  /\ cfg = DefaultCfg
  /\ files = [d \in RealDirs(tree) |-> [n \in {} |-> Hello]]
  /\ WalkerIdle
  /\ GenIdle
  /\ origin = files
  /\ NoMonoResult
  /\ checksum_file \in DetectFiles
  /\ detected = "unknown"
  /\ MainIdle

\* is_monolithic_file(checksum_file) is called
Detect ==
  /\ detected = "unknown"
  /\ detected' = IF is_monolithic_file(checksum_file) THEN "True" ELSE "False"
  /\ UNCHANGED <<wvars, gvars>>
  /\ UNCHANGED <<origin, mresult, checksum_file, args, verbosity_config,
                 squelch_settings, grand_totals, verification_exit_code,
                 dir_results, pending, printed, cpc>>

DetectNext == Detect

SpecDetect == DetectInit /\ [][DetectNext]_vars

(***************************************************************************)
(* main() for the verify command: verbosity, squelch settings, the         *)
(* reporting of directory results, grand totals and the exit code          *)
(***************************************************************************)
\* max(-5, min(4, level))
Clamp(level) == IF level < -5 THEN -5 ELSE IF level > 4 THEN 4 ELSE level

\* VerbosityConfig.from_args: the level of the configuration
from_args(a) ==
  IF a.explicit THEN Clamp(a.verbosity) ELSE Clamp(a.verbose - a.quiet)

\* VerbosityConfig.is_silent
is_silent(level) == level <= -6

\* the categories every entry of VERBOSITY_SQUELCH_MAP but that of -6 has
Categories ==
  {"INFO", "SUCCESS", "NO_SHASUM", "EXTRA", "MISSING", "FAILS", "SUMMARY"}

\* the keys of the dictionary get_squelch_settings returns
SquelchKeys(level) ==
  CASE level = -6 -> {"show_output"}
    [] level = -4 -> Categories \cup {"FORCE_SUMMARY"}
    [] level = -1 -> Categories \cup {"EXTRA_SUMMARY"}
    [] OTHER -> Categories

\* get_squelch_settings: the keys whose value is True
get_squelch_settings(level) ==
  CASE level = -6 -> {}
    [] level = -5 -> Categories
    [] level = -4 -> {"SUCCESS", "NO_SHASUM", "EXTRA", "MISSING", "FAILS",
                      "FORCE_SUMMARY"}
    [] level = -3 -> {"SUCCESS", "NO_SHASUM", "EXTRA", "MISSING"}
    [] level = -2 -> {"SUCCESS", "NO_SHASUM", "EXTRA"}
    [] level = -1 -> {"SUCCESS", "NO_SHASUM", "EXTRA_SUMMARY"}
    [] level = 1 -> {}
    [] OTHER -> {"SUCCESS"}

\* execute_verify_action: --show-all and --squelch applied on top
squelch_overrides(a, level) ==
  LET base == get_squelch_settings(level)
      shown == IF a.show_all /\ a.squelch = {}
               THEN base \ {"SUCCESS"} ELSE base
  IN shown \cup (a.squelch \cap SquelchKeys(level))

\* round(): to the nearest integer, halves to the even one
RoundDiv(n, d) ==
  LET q == n \div d
      r == n % d
  IN IF 2 * r > d THEN q + 1
     ELSE IF 2 * r < d THEN q
     ELSE IF q % 2 = 0 THEN q ELSE q + 1

\* calculate_verification_status: the exit code
exit_code_of(verified, failed, missing, extra) ==
  LET total_expected == verified + failed + missing
      success_percentage == RoundDiv(100 * verified, total_expected)
  IN IF total_expected = 0 THEN (IF extra > 0 THEN 4 ELSE 0)
     ELSE IF success_percentage = 100 THEN (IF extra = 0 THEN 0 ELSE 2)
     ELSE IF success_percentage >= 99 THEN 2
     ELSE IF success_percentage >= 95 THEN 3
     ELSE IF success_percentage >= 80 THEN 4
     ELSE IF success_percentage >= 50 THEN 5
     ELSE IF success_percentage > 0 THEN 6
     ELSE 7

\* GrandTotals(): counters at zero
NewTotals == [tracking |-> TRUE, verified |-> 0, failed |-> 0, missing |-> 0,
              extra |-> 0]

\* GrandTotals.add_directory_result (the file counters)
add_directory_result(t, r) ==
  IF ~t.tracking \/ r.error # "none" THEN t
  ELSE [t EXCEPT !.verified = @ + r.verified, !.failed = @ + r.failed,
                 !.missing = @ + r.missing, !.extra = @ + r.extra]

\* the state the reporting works on
Report(t, code, out) == [grand_totals |-> t, exit_code |-> code, printed |-> out]

\* _print_verification_results; the directory status line is left out of
\* what is printed
print_verification_results(st, r, a, level, squelched) ==
  LET t == add_directory_result(st.grand_totals, r)
  IN IF is_silent(level) \/ level <= -5
     THEN Report(t, st.exit_code, st.printed)
     ELSE IF r.error = "no_shasum"
     THEN Report(t, st.exit_code,
                 st.printed \o (IF "NO_SHASUM" \in squelched THEN <<>>
                                ELSE <<"NO_SHASUM">>))
     ELSE IF r.error # "none"
     THEN Report(t, st.exit_code, st.printed \o <<"ERROR">>)
     ELSE Report(t,
                 IF st.grand_totals.tracking THEN st.exit_code
                 ELSE exit_code_of(r.verified, r.failed, r.missing, r.extra),
                 st.printed
                   \o (IF r.verified > 0 /\ (a.show_all \/ level >= 2)
                       THEN <<"OK">> ELSE <<>>)
                   \o (IF r.failed > 0 /\ "FAILS" \notin squelched
                       THEN <<"FAIL">> ELSE <<>>)
                   \o (IF r.missing > 0 /\ "MISSING" \notin squelched
                       THEN <<"MISS">> ELSE <<>>)
                   \o (IF r.extra > 0 /\ "EXTRA" \notin squelched
                       THEN <<"EXTRA">> ELSE <<>>))

\* process_single_directory in verify mode: the results are reported unless
\* a log file is given
process_single_directory(st, r, a, level, squelched) ==
  IF a.log THEN st
  ELSE print_verification_results(st, r, a, level, squelched)

\* the end of process_directory_tree: display_grand_totals
display_grand_totals(st, a, level) ==
  IF a.recursive /\ st.grand_totals.tracking /\ ~is_silent(level)
  THEN Report(st.grand_totals,
              exit_code_of(st.grand_totals.verified, st.grand_totals.failed,
                           st.grand_totals.missing, st.grand_totals.extra),
              st.printed \o <<"TOTALS">>)
  ELSE st

\* main() up to the walk: the banner, the exit code reset, the grand totals
main_start(a, level) ==
  Report(IF a.recursive THEN NewTotals ELSE NoTotals, 0,
         IF is_silent(level) THEN <<>> ELSE <<"banner">>)

\* a whole verify run over the given directory results
RECURSIVE WalkReport(_, _, _, _, _)
WalkReport(st, results, a, level, squelched) ==
  IF results = <<>> THEN display_grand_totals(st, a, level)
  ELSE WalkReport(process_single_directory(st, Head(results), a, level, squelched),
                  Tail(results), a, level, squelched)
verify_exit_code(a, results) ==
  WalkReport(main_start(a, from_args(a)), results, a, from_args(a),
             squelch_overrides(a, from_args(a))).exit_code

\* results of verify_checksums_in_directory, as counts: all verified, one
\* of two failed, one missing, one extra, nothing recorded, no digest file
DirResult(e, v, f, m, x) ==
  [error |-> e, verified |-> v, failed |-> f, missing |-> m, extra |-> x]
DirResults ==
  { DirResult("none", 1, 0, 0, 0), DirResult("none", 1, 1, 0, 0),
    DirResult("none", 0, 0, 1, 0), DirResult("none", 1, 0, 0, 1),
    DirResult("no_shasum", 0, 0, 0, 0) }

\* command lines: -q and -v counts or --verbosity, --log, --squelch,
\* --show-all, -r
ArgSet ==
  { a \in [quiet : 0..6, verbose : 0..4, verbosity : -6..5,
           explicit : BOOLEAN, log : BOOLEAN, squelch : {{}, {"FAILS"}},
           show_all : BOOLEAN, recursive : BOOLEAN] :
      /\ a.quiet = 0 \/ a.verbose = 0
      /\ a.explicit => a.quiet = 0 /\ a.verbose = 0
      /\ ~a.explicit => a.verbosity = 0 }

CliInit ==
  /\ tree = FlatTree
  /\ follow_symlinks = FALSE
  /\ cfg = DefaultCfg
  /\ files = [d \in RealDirs(tree) |-> [n \in {} |-> Hello]]
  /\ WalkerIdle
  /\ GenIdle
  /\ origin = files
  /\ NoMonoResult
  /\ checksum_file = <<>>
  /\ detected = "unknown"
  /\ args = NoArgs
  /\ verbosity_config = 0
  /\ squelch_settings = {}
  /\ grand_totals = NoTotals
  /\ verification_exit_code = 0
  /\ dir_results \in UNION { [1..n -> DirResults] : n \in 1..MaxWalk }
  /\ pending = <<>>
  /\ printed = <<>>
  /\ cpc = "idle"

\* main() parses the command line and enters process_directory_tree
Main(a) ==
  /\ cpc = "idle"
  /\ a.recursive \/ Len(dir_results) = 1
  /\ args' = a
  /\ verbosity_config' = from_args(a)
  /\ squelch_settings' = squelch_overrides(a, from_args(a))
  /\ LET st == main_start(a, from_args(a))
     IN /\ grand_totals' = st.grand_totals
        /\ verification_exit_code' = st.exit_code
        /\ printed' = st.printed
  /\ pending' = dir_results
  /\ cpc' = "walk"
  /\ UNCHANGED <<wvars, gvars>>
  /\ UNCHANGED <<origin, mresult, checksum_file, detected, dir_results>>

\* the walker hands the next directory to process_single_directory
ReportDir ==
  /\ cpc = "walk" /\ pending # <<>>
  /\ LET st == process_single_directory(
                 Report(grand_totals, verification_exit_code, printed),
                 Head(pending), args, verbosity_config, squelch_settings)
     IN /\ grand_totals' = st.grand_totals
        /\ verification_exit_code' = st.exit_code
        /\ printed' = st.printed
  /\ pending' = Tail(pending)
  /\ UNCHANGED <<wvars, gvars>>
  /\ UNCHANGED <<origin, mresult, checksum_file, detected, args,
                 verbosity_config, squelch_settings, dir_results, cpc>>

\* the walk is over: grand totals are displayed and main() returns
\* verification_exit_code
Return ==
  /\ cpc = "walk" /\ pending = <<>>
  /\ LET st == display_grand_totals(
                 Report(grand_totals, verification_exit_code, printed),
                 args, verbosity_config)
     IN /\ grand_totals' = st.grand_totals
        /\ verification_exit_code' = st.exit_code
        /\ printed' = st.printed
  /\ cpc' = "done"
  /\ UNCHANGED <<wvars, gvars>>
  /\ UNCHANGED <<origin, mresult, checksum_file, detected, args,
                 verbosity_config, squelch_settings, dir_results, pending>>

CliNext ==
  \/ \E a \in ArgSet : Main(a)
  \/ ReportDir
  \/ Return

SpecCli == CliInit /\ [][CliNext]_vars

\* verification results with many verified files beside a failed, missing
\* or extra one
StatusResults ==
  { DirResult("none", v, f, m, x) :
      v \in {0, 1, ManyFiles}, f \in 0..1, m \in 0..1, x \in 0..1 }

\* dazzlesum verify [-r] DIR: every output setting at its default
StatusArgs == { [NoArgs EXCEPT !.recursive = r] : r \in BOOLEAN }

StatusInit ==
  /\ tree = FlatTree
  /\ follow_symlinks = FALSE
  /\ cfg = DefaultCfg
  /\ files = [d \in RealDirs(tree) |-> [n \in {} |-> Hello]]
  /\ WalkerIdle
  /\ GenIdle
  /\ origin = files
  /\ NoMonoResult
  /\ checksum_file = <<>>
  /\ detected = "unknown"
  /\ args = NoArgs
  /\ verbosity_config = 0
  /\ squelch_settings = {}
  /\ grand_totals = NoTotals
  /\ verification_exit_code = 0
  /\ dir_results \in UNION { [1..n -> StatusResults] : n \in 1..MaxWalk }
  /\ pending = <<>>
  /\ printed = <<>>
  /\ cpc = "idle"

StatusNext ==
  \/ \E a \in StatusArgs : Main(a)
  \/ ReportDir
  \/ Return

SpecStatus == StatusInit /\ [][StatusNext]_vars

SpecWalk == WalkInit /\ [][WalkNext]_vars

\* the loop body runs to completion once entered and the loop condition is
\* re-evaluated after every iteration: the walk never pauses on its own
FairSpecWalk == SpecWalk /\ WF_vars(WalkNext)

(***************************************************************************)
(* Properties of the walker                                                *)
(***************************************************************************)
\* the path of entry e inside the tree (through real directories only)
EntryPath(t, e) == Append(CanonPath(t, t.parent[e]), e)

\* a link that points back at one of its ancestors inside the tree
IsCycleLink(t, e) ==
  /\ e \in LinkEntries(t)
  /\ t.target[e] # Above
  /\ IsPrefix(CanonPath(t, t.target[e]), EntryPath(t, e))

HasSymlinkCycle(t) == \E e \in EntriesOf(t) : IsCycleLink(t, e)

\* how many times processor_func was invoked on directory d (under any path)
CallsOn(d) == Cardinality({i \in DOMAIN calls : Resolve(tree, calls[i]) = d})

\* C1: on a tree containing a symlink cycle, a finished recursive walk in
\* which no callback raised has invoked the callback exactly once on every
\* real directory of the tree, with link-following enabled or disabled.
C1_LoopFreedom ==
  (wpc = "done" /\ HasSymlinkCycle(tree) /\ raised = {})
    => \A d \in RealDirs(tree) : CallsOn(d) = 1

\* C8: the walk terminates on every finite tree, cycles and link-following
\* included: the queue becomes empty and walk_and_process returns.
C8_Terminates == <>(wpc = "done" /\ processing_queue = <<>>)

\* a walk that followed a link and met a link back to an ancestor has ended
C8_Witness ==
  /\ wpc = "done" /\ follow_symlinks /\ HasSymlinkCycle(tree)
  /\ \E i \in DOMAIN calls : is_symlink_or_junction(tree, calls[i])

Visited(d) == d \in visited_inodes \/ CanonPath(tree, d) \in visited_paths

NewItems(old, new) == {new[i] : i \in (Len(old) + 1)..Len(new)}

\* C9: once a directory identity is in the visited set it is never appended
\* to the queue again and the callback is never invoked on it again, under
\* whatever path it is reached; no identity is processed more than once.
C9_VisitedNeverAgain ==
  [][ \A d \in RealDirs(tree) \cup {Above} :
        Visited(d) =>
          /\ \A p \in NewItems(enqueued, enqueued') : Resolve(tree, p) # d
          /\ \A p \in NewItems(calls, calls') : Resolve(tree, p) # d
          /\ CallsOn(d) <= 1 ]_vars

\* a visited directory was reached again through a symlink alias and dropped
C9_Witness ==
  /\ wpc = "done" /\ follow_symlinks
  /\ \E i \in DOMAIN enqueued : \E j \in DOMAIN calls :
       /\ enqueued[i] # calls[j]
       /\ Resolve(tree, enqueued[i]) = Resolve(tree, calls[j])
       /\ \A k \in DOMAIN calls : calls[k] # enqueued[i]

\* C10 as stated: when the callback raised for D, the finished walk has
\* still processed D's own subdirectories.
C10_SubdirsStillProcessed ==
  (wpc = "done" /\ LinkEntries(tree) = {})
    => \A D \in raised :
         \A c \in ChildEntries(tree, Resolve(tree, D)) : CallsOn(c) = 1

\* every queued path was dequeued and examined: its directory was handed to
\* the callback (under some path) or taken by a link that is not followed
Examined(p) ==
  /\ Visited(Resolve(tree, p))
  /\ \/ CallsOn(Resolve(tree, p)) = 1
     \/ \E i \in DOMAIN enqueued :
          /\ Resolve(tree, enqueued[i]) = Resolve(tree, p)
          /\ ~should_follow_link(tree, enqueued[i], follow_symlinks)

\* C10 (amended): a raising callback does not abort the walk: every path
\* that was ever queued - D's siblings and everything queued before D - is
\* still dequeued and processed, but nothing is enqueued from D itself.
C10_FailureIsolation ==
  wpc = "done" =>
    /\ \A i \in DOMAIN enqueued : Examined(enqueued[i])
    /\ \A D \in raised : \A i \in DOMAIN enqueued :
         ~(Len(enqueued[i]) = Len(D) + 1 /\ IsPrefix(D, enqueued[i]))

\* a callback raised and a directory dequeued after it was still processed
C10_Witness ==
  /\ wpc = "done"
  /\ \E i, j \in DOMAIN calls :
       /\ i < j
       /\ calls[i] \in raised
       /\ calls[j] \notin raised
       /\ ChildEntries(tree, Resolve(tree, calls[i])) # {}

(***************************************************************************)
(* Properties of the tree-wide writer and of resume                        *)
(***************************************************************************)
LastRun == runs[Len(runs)]

\* a run has ended and no new one has started
AfterRun == gpc = "idle" /\ runs # <<>>

\* C2: a run killed after the writer opened its temporary file and before
\* the commit completed leaves the previously committed tree-wide file at
\* the target path, byte-identical to its content before the run.
C2_AtomicCommit ==
  (/\ AfterRun /\ cfg.monolithic
   /\ LastRun.exit = "killed"
   /\ LastRun.at \in {"walk", "replace", "replace_move"}
   /\ pre.target # NoFile)
    => mono_target = pre.target

\* C3: a run in which append_directory_checksums raised ends with a
\* discard: the temporary file is removed and the target path holds what it
\* held before the run.
C3_FailureDiscards ==
  (AfterRun /\ LastRun.failed /\ LastRun.exit = "completed")
    => (mono_temp = NoFile /\ mono_target = pre.target)

EntriesOfDir(d) ==
  {RelativePath(CanonPath(tree, d), n) : n \in DOMAIN generate_checksums_for_directory(d)}

\* C7: a tree-wide run is killed after the entries of d1 were appended and
\* flushed; the resumed run does not process d1 again, appends no entry of
\* d1, and the committed file holds every entry of d1 exactly once.
C7_ResumeSkipsDone ==
  (/\ AfterRun /\ Len(runs) = 2
   /\ cfg.monolithic /\ ~cfg.individual
   /\ runs[1].exit = "killed" /\ runs[1].at = "walk" /\ ~runs[1].resume
   /\ runs[2].exit = "completed" /\ runs[2].resume /\ ~runs[2].failed)
    => \A d1 \in RealDirs(tree) :
         (/\ runs[1].generated = {d1} /\ runs[1].appended # <<>>
          /\ \E d2 \in RealDirs(tree) \ {d1} : EntriesOfDir(d2) # {})
           => /\ d1 \notin runs[2].generated
              /\ \A i \in DOMAIN runs[2].appended :
                   runs[2].appended[i] \notin EntriesOfDir(d1)
              /\ \A r \in EntriesOfDir(d1) : LinesNaming(mono_target, r) = 1

(***************************************************************************)
(* Properties of generate followed by verify                               *)
(***************************************************************************)
IncludedFiles(d) ==
  {n \in DOMAIN files[d] : should_include_file(n, create_patterns)}

AllVerified(names) ==
  [error |-> FALSE, verified |-> names, failed |-> {}, missing |-> {},
   extra |-> {}]

StableName(n) == Strip(n) = n

\* every included file of d can be read and has a name without trailing
\* whitespace
WellBehaved(d) ==
  \A n \in IncludedFiles(d) : ~HashRaises(d, n) /\ StableName(n)

RecordedNames(d) == {dl[2][2] : dl \in DataLines(ShasumAt(d))}

\* C5: in shadow mode, verification of the root and of every subdirectory
\* of the unmodified tree classifies every recorded file as verified and
\* none as missing or failed.
C5_ShadowRoundTrip ==
  (AfterRun /\ cfg.shadow)
    => \A d \in RealDirs(tree) :
         (/\ vresult[d] # NotVerified
          /\ ShasumAt(d) # NoFile
          /\ WellBehaved(d))
           => /\ vresult[d].verified = RecordedNames(d)
              /\ vresult[d].missing = {}
              /\ vresult[d].failed = {}

(***************************************************************************)
(* Properties of verification                                              *)
(***************************************************************************)
\* C11: two tree-wide digest files that are identical except for the path in
\* the root line, verified against the same directory, give identical
\* verified, failed, missing and extra; every entry is resolved under the
\* directory that is verified, never under the recorded root.
C11_CloneIndependent ==
  /\ \A r1, r2 \in RecordedRoots :
       (mresult[r1] # NotVerified /\ mresult[r2] # NotVerified)
         => mresult[r1] = mresult[r2]
  /\ \A r \in RecordedRoots :
       mresult[r] # NotVerified =>
         \A k \in MonoEntries(mono_target) :
           /\ k \in mresult[r].missing <=> ~ExistsAt(HerePath, k)
           /\ k \in mresult[r].verified => ExistsAt(HerePath, k)

\* the file as recorded at the verified path and as recorded at the path of
\* the original were both verified against a tree that no longer equals the
\* original, and a recorded file was not verified
C11_Witness ==
  /\ mresult[HerePath] # NotVerified
  /\ mresult[OriginPath] # NotVerified
  /\ Edited # {}
  /\ mresult[OriginPath].failed \cup mresult[OriginPath].missing # {}
  /\ mresult[OriginPath].verified # {}

\* what the classification of a stored entry should be
ShouldBe(res, name, exists, same) ==
  /\ name \in res.missing <=> ~exists
  /\ name \in res.verified <=> (exists /\ same)
  /\ name \in res.failed <=> (exists /\ ~same)

PairwiseDisjoint(res) ==
  /\ res.verified \cap res.failed = {}
  /\ res.verified \cap res.missing = {}
  /\ res.verified \cap res.extra = {}
  /\ res.failed \cap res.missing = {}
  /\ res.failed \cap res.extra = {}
  /\ res.missing \cap res.extra = {}

\* C12: both verification routines put every stored entry in exactly one of
\* verified, failed, missing - missing iff the file does not exist, verified
\* iff it exists and its hash equals the stored hash ignoring case, failed
\* otherwise - and the four result lists are pairwise disjoint.
C12_Classification ==
  /\ \A d \in RealDirs(tree) :
       (vresult[d] # NotVerified /\ ~vresult[d].error) =>
         /\ PairwiseDisjoint(vresult[d])
         /\ \A n \in RecordedNames(d) :
              ShouldBe(vresult[d], n, n \in Listing(d),
                       /\ n \in Listing(d)
                       /\ ~HashRaises(d, n)
                       /\ Lower(calculate_file_hash(d, n))
                            = Lower(StoredHash(ShasumAt(d), n)))
  /\ \A r \in RecordedRoots :
       (mresult[r] # NotVerified /\ ~mresult[r].error) =>
         /\ PairwiseDisjoint(mresult[r])
         /\ \A dl \in DataLines(mono_target) :
              ShouldBe(mresult[r], dl[2][2], ExistsAt(HerePath, dl[2][2]),
                       /\ ExistsAt(HerePath, dl[2][2])
                       /\ ~HashRaisesAt(HerePath, dl[2][2])
                       /\ Lower(HashAt(HerePath, dl[2][2])) = Lower(dl[2][1]))

\* C13: verification against a tree-wide digest file reports in extra every
\* included file under the verified directory that has no entry in the file.
C13_MonolithicExtra ==
  \A r \in RecordedRoots :
    mresult[r] # NotVerified =>
      \A d \in RealDirs(tree) : \A n \in DOMAIN files[d] :
        (/\ should_include_file(n, create_patterns)
         /\ RelativePath(CanonPath(tree, d), n) \notin MonoEntries(mono_target))
          => RelativePath(CanonPath(tree, d), n) \in mresult[r].extra

\* C16: a file that the include/exclude patterns kept out of generation is
\* never reported as extra by a later verification of the same tree.
C16_FilterConsistent ==
  \A d \in RealDirs(tree) :
    vresult[d] # NotVerified =>
      \A n \in vresult[d].extra \cap DOMAIN files[d] :
        should_include_file(n, create_patterns)

\* the recorded files of d whose bytes are no longer those generation read
Overwritten(d) ==
  {n \in RecordedNames(d) \cap DOMAIN files[d] \cap DOMAIN origin[d] :
     files[d][n] # origin[d][n]}

HashedBytes(n, data) ==
  IF cfg.native_tool \/ data = <<>>
       \/ ~should_normalize(n, data, cfg.line_endings)
  THEN data
  ELSE normalize_content(data, cfg.line_endings)

C15_WriterLifecycle ==
  (AfterRun /\ cfg.monolithic /\ LastRun.exit \in {"completed", "interrupted"})
    => (~is_open /\ mono_temp = NoFile)

DataName(line) ==
  LET l == Strip(line)
      parts == SplitTwoSpaces(l)
  IN IF l # <<>> /\ ~IsComment(l) /\ Len(parts) = 2 THEN parts[2] ELSE <<>>
\* a line that is neither blank nor a comment
IsDataLine(line) == Strip(line) # <<>> /\ ~IsComment(Strip(line))

\* C18: is_monolithic_file returns true exactly when some data line of the
\* file has a name containing a path separator or a header comment (one
\* before the first data line) mentions the root directory.
C18_Detection ==
  detected # "unknown" =>
    (detected = "True" <=>
       \/ \E i \in DOMAIN checksum_file : HasSeparator(DataName(checksum_file[i]))
       \/ \E i \in DOMAIN checksum_file :
            /\ IsComment(Strip(checksum_file[i]))
            /\ Mentions(checksum_file[i], RootDirectoryWord)
            /\ \A j \in 1..(i - 1) : ~IsDataLine(checksum_file[j]))

\* the command line with every output setting at its default
DefaultOutput(a) ==
  [a EXCEPT !.quiet = 0, !.verbose = 0, !.verbosity = 0, !.explicit = FALSE,
            !.log = FALSE, !.squelch = {}, !.show_all = FALSE]

\* C19: the exit code of a verify run is the one the same verification
\* results give with every output setting (squelch categories, --show-all,
\* quiet/verbosity level, --log) at its default.
C19_ExitCodeIndependent ==
  cpc = "done" =>
    verification_exit_code = verify_exit_code(DefaultOutput(args), dir_results)

\* the level the command line asks for
RequestedLevel(a) == IF a.explicit THEN a.verbosity ELSE a.verbose - a.quiet

\* C20: the effective level is verbose_count - quiet_count, or the
\* --verbosity value, for every level from -6 to +4; at level -6 a
\* recursive verify prints nothing and returns a non-zero exit code when
\* the verification found problems.
C20_VerbosityLevel ==
  (cpc # "idle" /\ RequestedLevel(args) \in -6..4) =>
    /\ verbosity_config = RequestedLevel(args)
    /\ (RequestedLevel(args) = -6 /\ args.recursive /\ ~args.log
          /\ cpc = "done") =>
         /\ printed = <<>>
         /\ (verify_exit_code(DefaultOutput(args), dir_results) > 0
               => verification_exit_code > 0)

\* C21: the committed tree-wide file ends with the end marker, holds it
\* nowhere else, and starts with the two header lines, which are its only
\* other comment lines - after fresh and resumed runs alike.
C21_EndMarker ==
  mono_target # NoFile =>
    /\ Len(mono_target) >= 3
    /\ mono_target[Len(mono_target)] = EndMarker
    /\ \E c \in 1..clock : mono_target[1] = MonoHeader(c)
    /\ mono_target[2] = RootLine(HerePath)
    /\ \A i \in 3..(Len(mono_target) - 1) : ~IsComment(mono_target[i])

\* a resumed run that reopened a committed file with entries has committed
C21_Witness ==
  /\ AfterRun /\ cfg.monolithic /\ Len(runs) = 2
  /\ runs[1].exit = "completed"
  /\ LastRun.resume /\ LastRun.exit = "completed"
  /\ LastRun.pre # NoFile
  /\ Len(mono_target) > 3

\* C22: after a completed non-resume run, the per-directory digest file of
\* every directory the run processed holds the header, one line for each
\* included file now in the directory that was hashed, sorted by name, and
\* the end marker - also when the directory holds no included file (no
\* digest file at all counts as a file without entries).
C22_FreshOverwrite ==
  (/\ AfterRun /\ cfg.individual
   /\ ~LastRun.resume /\ LastRun.exit = "completed"
   /\ Len(runs) = 1 => Edited = {})
    => \A d \in LastRun.generated :
         LET checksums == generate_checksums_for_directory(d)
         IN \/ ShasumAt(d) = ShasumContent(checksums, clock)
            \/ DOMAIN checksums = {} /\ ShasumAt(d) = NoFile

\* a complete digest file of directory d: the header of some run, one line
\* for every included file of d that can be hashed, the end marker
CompleteShasum(content, d) ==
  \E c \in 1..clock :
    content = ShasumContent(generate_checksums_for_directory(d), c)

\* C23: whenever a generation run was killed, every per-directory digest
\* file on disk is a complete valid digest file of its directory.
C23_CrashConsistent ==
  (AfterRun /\ cfg.individual /\ LastRun.exit = "killed") =>
    \A d \in RealDirs(tree) :
      ShasumAt(d) # NoFile => CompleteShasum(ShasumAt(d), d)

\* C24: no relative path is on more than one data line of the committed
\* tree-wide file, and a resumed run appends no entry whose relative path
\* the file it reopened already holds.
C24_UniqueNames ==
  /\ mono_target # NoFile =>
       \A r \in MonoEntries(mono_target) : LinesNaming(mono_target, r) = 1
  /\ (AfterRun /\ LastRun.resume) =>
       \A i \in DOMAIN LastRun.appended :
         LastRun.appended[i] \notin MonoEntries(LastRun.pre)

\* C25: the file a completed run commits is made of what the run copied
\* from the committed target (a resumed run) or of its own header lines (a
\* fresh run), followed by the entries the run appended and the end
\* marker: nothing of a temporary file left by a killed run is in it.
C25_LeftoverNotPromoted ==
  (AfterRun /\ cfg.monolithic /\ LastRun.exit = "completed") =>
    LET base == IF LastRun.resume /\ LastRun.pre # NoFile
                THEN SubSeq(LastRun.pre, 1, Len(LastRun.pre) - 1)
                ELSE <<MonoHeader(clock), RootLine(HerePath)>>
    IN /\ IsPrefix(base, mono_target)
       /\ Len(mono_target) = Len(base) + Len(LastRun.appended) + 1
       /\ \A i \in DOMAIN LastRun.appended :
            SplitTwoSpaces(mono_target[Len(base) + i])[2] = LastRun.appended[i]

\* a run completed after a killed run that had left a temporary file with
\* entries
C25_Witness ==
  /\ AfterRun /\ cfg.monolithic /\ Len(runs) >= 2
  /\ runs[Len(runs) - 1].exit = "killed"
  /\ runs[Len(runs) - 1].at = "walk"
  /\ runs[Len(runs) - 1].appended # <<>>
  /\ LastRun.exit = "completed"
  /\ Len(mono_target) > 3

\* the position at which a path was put on the queue
EnqueuedAt(path) == CHOOSE k \in DOMAIN enqueued : enqueued[k] = path

\* the depth of a queued path below the root
DepthOf(path) == Len(path) - Len(RootPath)

\* C26: the callback is invoked in the order of enqueueing, a directory at
\* depth k is processed before every directory at depth k+1, and the queue
\* holds paths of directories (real or linked) only
C26_BreadthFirst ==
  /\ \A i \in DOMAIN calls : \E k \in DOMAIN enqueued : enqueued[k] = calls[i]
  /\ \A i, j \in DOMAIN calls :
       i < j => /\ EnqueuedAt(calls[i]) < EnqueuedAt(calls[j])
                /\ DepthOf(calls[i]) <= DepthOf(calls[j])
  /\ \A i \in DOMAIN processing_queue :
       /\ LastOf(processing_queue[i]) \in {Root} \cup EntriesOf(tree)
       /\ \A c \in DOMAIN calls :
            DepthOf(calls[c]) <= DepthOf(processing_queue[i])

\* a directory at depth 1 was processed while a subdirectory of its
\* already processed sibling was waiting, and that subdirectory came later
C26_Witness ==
  \E i, j \in DOMAIN calls :
    /\ i + 1 < j
    /\ DepthOf(calls[i]) = 1 /\ DepthOf(calls[i + 1]) = 1
    /\ DepthOf(calls[j]) = 2 /\ IsPrefix(calls[i], calls[j])

\* the real directories reachable from the root through real directories
RECURSIVE ReachableReal(_, _)
ReachableReal(t, d) ==
  {d} \cup UNION { ReachableReal(t, c) :
                     c \in {e \in ChildEntries(t, d) : IsReal(t, e)} }

\* C27: with link-following disabled the callback is invoked on exactly the
\* real directories reachable from the root through real directories, and on
\* no link, whatever the order in which the links are dequeued
C27_RealDirsExactly ==
  (wpc = "done" /\ ~follow_symlinks /\ raised = {}) =>
    /\ \A i \in DOMAIN calls : ~is_symlink_or_junction(tree, calls[i])
    /\ {LastOf(calls[i]) : i \in DOMAIN calls} = ReachableReal(tree, Root)

\* the relative paths of the files the tree holds in directory d
TreeEntries(d) ==
  {RelativePath(CanonPath(tree, d), n) : n \in DOMAIN files[d]}

\* C28: in mode 'both' a first run is interrupted and a resumed run
\* completes: the committed tree-wide file names every file of the tree, and
\* a directory the resumed run skipped has its entries in the tree-wide file
\* that was appended to
C28_ResumeCompleteBoth ==
  (/\ AfterRun /\ Len(runs) = 2
   /\ cfg.individual /\ cfg.monolithic
   /\ runs[1].exit \in {"killed", "interrupted"} /\ ~runs[1].resume
   /\ runs[2].exit = "completed" /\ runs[2].resume /\ ~runs[2].failed
   /\ mono_target # NoFile)
    => /\ \A d \in RealDirs(tree) : TreeEntries(d) \subseteq MonoEntries(mono_target)
       /\ \A d \in RealDirs(tree) \ runs[2].generated :
            TreeEntries(d) \subseteq MonoEntries(pre.target)

\* C29: with the tree-wide file at its default place in the tree root, no
\* data line of the committed tree-wide file names the tree-wide file itself
\* or its temporary file, after first runs, overwriting runs and resumed runs
C29_NoSelfEntry ==
  (MonoInTree /\ cfg.monolithic /\ mono_target # NoFile)
    => /\ MonoName \notin MonoEntries(mono_target)
       /\ TempName \notin MonoEntries(mono_target)

\* the file counters summed over the directory results
RECURSIVE SumResults(_)
SumResults(results) ==
  IF results = <<>> THEN NewTotals
  ELSE add_directory_result(SumResults(Tail(results)), Head(results))

\* C30: a verify run ends with exit code 0 only when no file failed, is
\* missing or is extra, and any failed or missing file gives a non-zero exit
\* code, for one directory and for the grand totals of a recursive run
C30_ZeroOnlyWhenClean ==
  cpc = "done" =>
    LET t == SumResults(dir_results)
    IN /\ verification_exit_code = 0 =>
            t.failed = 0 /\ t.missing = 0 /\ t.extra = 0
       /\ (t.failed > 0 \/ t.missing > 0) => verification_exit_code # 0

\* the cap on queued paths is never what stops the walker
PathsBounded ==
  \A i \in DOMAIN processing_queue : Len(processing_queue[i]) <= MaxPathLen
====
